---------------------------- MODULE Spec2Model ----------------------------
(***************************************************************************)
(* A model of the MinFuck interpreter src/interpreter/mf.py: the header    *)
(* parser and the fetch-decode-execute loop of mainloop, and the Tape      *)
(* class.                                                                  *)
(*                                                                         *)
(* Offsets are 0-based as in the source; TLA+ sequences are 1-based, so    *)
(* program[i] of the source is program[i + 1] here, likewise thetape.      *)
(*                                                                         *)
(* The source runs both untranslated on CPython 2 and translated by        *)
(* RPython.  Where the two differ (an index out of range, a bytearray item *)
(* assigned a value outside 0..255, a failing assert, which the RPython    *)
(* translator removes) a step draws an outcome u: u = -1 is the checked    *)
(* outcome (the exception CPython raises, which ends the run), u >= 0 is   *)
(* the unchecked outcome, u being the stray byte an unchecked read yields. *)
(***************************************************************************)
EXTENDS Integers, Sequences, FiniteSets, TLC

VARIABLES
    program,    \* the byte buffer handed to mainloop (never mutated)
    pc,         \* mainloop's pc: a byte offset into program
    thetape,    \* Tape.thetape (<<>> while tape is None)
    position,   \* Tape.position
    output,     \* the bytes control code 6 wrote to fd 1
    diag,       \* the diagnostic lines the loader wrote to fd 1
    stdin,      \* the bytes waiting unread on fd 0
    stdinOpen,  \* whether the writing end of fd 0 is still open
    status,     \* "Start", "Running", "Halted", "LoadError", "Fault"
    rc,         \* mainloop's return value; -1 while it has not returned
    steps,      \* the number of loop iterations begun so far
    opc,        \* the offset of the byte the last iteration decoded
    jumped      \* whether the last iteration assigned pc from a jump operand

vars == <<program, pc, thetape, position, output, diag, stdin, stdinOpen,
          status, rc, steps, opc, jumped>>

(***************************************************************************)
(* Bounds of the model.                                                    *)
(***************************************************************************)
MaxMem == 1
MaxInstr == 2
MaxSteps == 3
MaxCount == 2

(***************************************************************************)
(* Program constants.                                                      *)
(***************************************************************************)
Magic == <<255, 109, 102, 253>>      \* "\xff\x6d\x66\xfd"
BFMagic == <<255, 109, 104, 253>>    \* "\xff\x6d\x68\xfd"
TooSmallMsg == "Invalid MF binary(file too small)\n"
MismatchMsg == "Invalid MF binary(magic mismatch)\n"

\* The outcomes of an operation the two builds disagree on.
Outcomes == {-1, 0, 1}

\* The bytes the environment may supply on standard input.
InputBytes == {0, 65}

(***************************************************************************)
(* Strings and slices.                                                     *)
(***************************************************************************)
\* program[lo:hi] of Python: clipped to the buffer, never an error.
Slice(p, lo, hi) ==
    LET h == IF hi < Len(p) THEN hi ELSE Len(p)
    IN  IF lo >= h THEN <<>> ELSE SubSeq(p, lo + 1, h)

\* runpack(">I", s): the four bytes of s as an unsigned big-endian integer.
runpack(s) == 16777216 * s[1] + 65536 * s[2] + 256 * s[3] + s[4]

(***************************************************************************)
(* The Tape class together with the two streams its control codes use.     *)
(* A world w is [thetape, position, output, stdin, fault].                 *)
(***************************************************************************)
Raise(w) == [w EXCEPT !.fault = TRUE]

\* Tape.__init__
NewTape(size) == [i \in 1..size |-> 0]

\* The 1-based place of thetape[position]; 0 when the index is out of range.
\* A negative index counts from the end, as Python and RPython index.
TapeIndex(w) ==
    LET n == Len(w.thetape)
        p == w.position
    IN  IF p >= 0 /\ p < n THEN p + 1
        ELSE IF p < 0 /\ p >= -n THEN p + n + 1
        ELSE 0

\* Tape.get: the value read (the stray byte u when out of range).
get(w, u) == IF TapeIndex(w) # 0 THEN w.thetape[TapeIndex(w)] ELSE u

\* thetape[position] = val of a bytearray.
set(w, val, u) ==
    IF w.fault THEN w
    ELSE IF TapeIndex(w) = 0 THEN (IF u = -1 THEN Raise(w) ELSE w)
    ELSE IF val < 0 \/ val > 255
         THEN (IF u = -1 THEN Raise(w)
               ELSE [w EXCEPT !.thetape[TapeIndex(w)] = val % 256])
    ELSE [w EXCEPT !.thetape[TapeIndex(w)] = val]

\* Tape.inc: thetape[position] += val reads the item, then stores the sum.
incMutAdvances(w, val, u) ==
    IF w.fault THEN w
    ELSE IF TapeIndex(w) = 0 /\ u = -1 THEN Raise(w)
    ELSE LET w2 == set(w, get(w, u) + val, u)
         IN  IF w2.fault THEN w2 ELSE [w2 EXCEPT !.position = @ + val]
inc(w, val, u) ==
    IF w.fault THEN w
    ELSE IF TapeIndex(w) = 0 /\ u = -1 THEN Raise(w)
    ELSE set(w, get(w, u) + val, u)

\* Tape.dec
dec(w, val, u) ==
    IF w.fault THEN w
    ELSE IF TapeIndex(w) = 0 /\ u = -1 THEN Raise(w)
    ELSE set(w, get(w, u) - val, u)

\* Tape.advance
advance(w, val) == IF w.fault THEN w ELSE [w EXCEPT !.position = @ + val]

\* Tape.devance
devance(w, val) == IF w.fault THEN w ELSE [w EXCEPT !.position = @ - val]

\* os.write(1, chr(self.get()))
writeByte(w, u) ==
    IF w.fault THEN w
    ELSE IF TapeIndex(w) = 0 /\ u = -1 THEN Raise(w)
    ELSE [w EXCEPT !.output = Append(@, get(w, u))]

\* self.set(ord(os.read(0,1)[0])): at end of input os.read returns "", whose
\* item 0 is out of range.
readByteMutKeepsInput(w, u) ==
    IF w.fault THEN w
    ELSE IF w.stdin = <<>>
         THEN (IF u = -1 THEN Raise(w) ELSE set(w, u, u))
    ELSE set(w, Head(w.stdin), u)
readByte(w, u) ==
    IF w.fault THEN w
    ELSE IF w.stdin = <<>>
         THEN (IF u = -1 THEN Raise(w) ELSE set(w, u, u))
    ELSE set([w EXCEPT !.stdin = Tail(@)], Head(w.stdin), u)

\* Tape.control
controlMutMasked(w, code, u) ==
    IF code % 8 = 0 THEN inc(w, 1, u)
    ELSE IF code % 8 = 1 THEN dec(w, 1, u)
    ELSE IF code % 8 = 2 THEN advance(w, 1)
    ELSE IF code % 8 = 3 THEN devance(w, 1)
    ELSE IF code % 8 = 6 THEN writeByte(w, u)
    ELSE IF code % 8 = 7 THEN readByte(w, u)
    ELSE w
control(w, code, u) ==
    IF code = 0 THEN inc(w, 1, u)
    ELSE IF code = 1 THEN dec(w, 1, u)
    ELSE IF code = 2 THEN advance(w, 1)
    ELSE IF code = 3 THEN devance(w, 1)
    ELSE IF code = 6 THEN writeByte(w, u)
    ELSE IF code = 7 THEN readByte(w, u)
    ELSE w


(***************************************************************************)
(* The header parser: mainloop up to the loop.                             *)
(***************************************************************************)
\* range(lo, hi, step)
Range(lo, hi, step) == {i \in lo..(hi - 1) : (i - lo) % step = 0}

\* The MF tape: Tape(2*memsize+8) with every second cell from 2 on set to 1.
MFTapeMutFromZero(memsize) ==
    [i \in 1..(2 * memsize + 8) |->
        IF (i - 1) \in Range(0, 2 * memsize + 8, 2) THEN 1 ELSE 0]
MFTape(memsize) ==
    [i \in 1..(2 * memsize + 8) |->
        IF (i - 1) \in Range(2, 2 * memsize + 8, 2) THEN 1
        ELSE NewTape(2 * memsize + 8)[i]]

\* The BF tape: Tape(memsize).
BFTapeMutPadded(memsize) == NewTape(memsize + 8)
BFTape(memsize) == NewTape(memsize)

\* What the loader makes of buffer p: whether it loaded, what it wrote to
\* fd 1, and the tape.
HeaderMutMagicFirst(p) ==
    IF Slice(p, 0, 4) # Magic /\ Slice(p, 0, 4) # BFMagic
    THEN [ok |-> FALSE, diag |-> <<MismatchMsg>>, thetape |-> <<>>]
    ELSE IF Len(p) < 8
    THEN [ok |-> FALSE, diag |-> <<TooSmallMsg>>, thetape |-> <<>>]
    ELSE IF Slice(p, 0, 4) = Magic
    THEN [ok |-> TRUE, diag |-> <<>>, thetape |-> MFTape(runpack(Slice(p, 4, 8)))]
    ELSE [ok |-> TRUE, diag |-> <<>>, thetape |-> BFTape(runpack(Slice(p, 4, 8)))]
HeaderMutAnyIsBF(p) ==
    IF Len(p) < 8
    THEN [ok |-> FALSE, diag |-> <<TooSmallMsg>>, thetape |-> <<>>]
    ELSE IF Slice(p, 0, 4) = Magic
    THEN [ok |-> TRUE, diag |-> <<>>, thetape |-> MFTape(runpack(Slice(p, 4, 8)))]
    ELSE [ok |-> TRUE, diag |-> <<>>, thetape |-> BFTape(runpack(Slice(p, 4, 8)))]
Header(p) ==
    IF Len(p) < 8
    THEN [ok |-> FALSE, diag |-> <<TooSmallMsg>>, thetape |-> <<>>]
    ELSE LET memsize == runpack(Slice(p, 4, 8))
             magic == Slice(p, 0, 4)
         IN  IF magic = Magic
             THEN [ok |-> TRUE, diag |-> <<>>, thetape |-> MFTape(memsize)]
             ELSE IF magic # BFMagic
             THEN [ok |-> FALSE, diag |-> <<MismatchMsg>>, thetape |-> <<>>]
             ELSE [ok |-> TRUE, diag |-> <<>>, thetape |-> BFTape(memsize)]

\* The loop condition: while pc < len(program).
ContinuesMutEarly(p, c) == c + 1 < Len(p)
Continues(p, c) == c < Len(p)

(***************************************************************************)
(* The opcode decoder and one iteration of the loop.                       *)
(***************************************************************************)
\* x & 8 == 8
Bit8(x) == (x \div 8) % 2 = 1

\* The nibbles of byte c and the extended opcode it selects: spb = -1 for a
\* packed pair; pre tells whether c1 runs as a plain code before spb.
DecodeMutNoSixGuard(c) ==
    LET c1 == c \div 16
        c2 == c % 16
    IN  IF Bit8(c1) THEN [c1 |-> c1, c2 |-> c2, spb |-> c1 % 8, pre |-> FALSE]
        ELSE IF Bit8(c2)
        THEN [c1 |-> c1, c2 |-> c2, spb |-> c2 % 8, pre |-> TRUE]
        ELSE [c1 |-> c1, c2 |-> c2, spb |-> -1, pre |-> FALSE]
Decode(c) ==
    LET c1 == c \div 16
        c2 == c % 16
    IN  IF Bit8(c1) THEN [c1 |-> c1, c2 |-> c2, spb |-> c1 % 8, pre |-> FALSE]
        ELSE IF Bit8(c2) /\ c2 % 8 # 6
        THEN [c1 |-> c1, c2 |-> c2, spb |-> c2 % 8, pre |-> TRUE]
        ELSE [c1 |-> c1, c2 |-> c2, spb |-> -1, pre |-> FALSE]

\* The result of an iteration that raised at offset pc0.
Raised(w, pc0) == [w |-> Raise(w), pc |-> pc0, jumped |-> FALSE]

\* s followed by the stray bytes an unchecked read past its end yields.
Pad(s, u) == s \o [i \in 1..(4 - Len(s)) |-> u]

\* The branch spb == -1: both nibbles are plain codes, one byte consumed.
PackedPairMutSwapped(w, c1, c2, pc0, u) ==
    LET w2 == control(control(w, c2, u), c1, u)
    IN  [w |-> w2, pc |-> IF w2.fault THEN pc0 ELSE pc0 + 1, jumped |-> FALSE]
PackedPairMutStays(w, c1, c2, pc0, u) ==
    LET w2 == control(control(w, c1, u), c2, u)
    IN  [w |-> w2, pc |-> pc0, jumped |-> FALSE]
PackedPair(w, c1, c2, pc0, u) ==
    LET w2 == control(control(w, c1, u), c2, u)
    IN  [w |-> w2, pc |-> IF w2.fault THEN pc0 ELSE pc0 + 1, jumped |-> FALSE]

\* spb 0 and 1: the cell changes by the byte at pc+3 after pc += 1.
ArithMutFirstByte(p, w, pc0, spb, u) ==
    IF pc0 + 1 >= Len(p) /\ u = -1 THEN Raised(w, pc0)
    ELSE LET b == IF pc0 + 1 < Len(p) THEN p[pc0 + 2] ELSE u
             w2 == IF spb = 0 THEN inc(w, b, u) ELSE dec(w, b, u)
         IN  [w |-> w2, pc |-> IF w2.fault THEN pc0 ELSE pc0 + 5,
              jumped |-> FALSE]
Arith(p, w, pc0, spb, u) ==
    LET pc1 == pc0 + 1
    IN  IF pc1 + 3 >= Len(p) /\ u = -1 THEN Raised(w, pc0)
        ELSE LET b == IF pc1 + 3 < Len(p) THEN p[pc1 + 3 + 1] ELSE u
                 w2 == IF spb = 0 THEN inc(w, b, u) ELSE dec(w, b, u)
             IN  [w |-> w2, pc |-> IF w2.fault THEN pc0 ELSE pc1 + 4,
                  jumped |-> FALSE]

\* spb 2 and up, after data was unpacked and pc moved past the operand
\* (pc2), from assert data > 0 on.
WithDataMutNoFallThrough(w, pc0, pc2, spb, data, u) ==
    IF ~(data > 0) /\ u = -1 THEN Raised(w, pc0)
    ELSE IF spb = 2 THEN [w |-> advance(w, data), pc |-> pc2, jumped |-> FALSE]
    ELSE IF spb = 3 THEN [w |-> devance(w, data), pc |-> pc2, jumped |-> FALSE]
    ELSE IF spb = 4 \/ spb = 5
    THEN IF TapeIndex(w) = 0 /\ u = -1 THEN Raised(w, pc0)
         ELSE [w |-> w, pc |-> data, jumped |-> TRUE]
    ELSE [w |-> w, pc |-> pc2, jumped |-> FALSE]
WithDataMutSwappedMoves(w, pc0, pc2, spb, data, u) ==
    IF ~(data > 0) /\ u = -1 THEN Raised(w, pc0)
    ELSE IF spb = 3 THEN [w |-> advance(w, data), pc |-> pc2, jumped |-> FALSE]
    ELSE IF spb = 2 THEN [w |-> devance(w, data), pc |-> pc2, jumped |-> FALSE]
    ELSE IF spb = 4 \/ spb = 5
    THEN IF TapeIndex(w) = 0 /\ u = -1 THEN Raised(w, pc0)
         ELSE IF (spb = 4 /\ get(w, u) = 0) \/ (spb = 5 /\ get(w, u) # 0)
         THEN [w |-> w, pc |-> data, jumped |-> TRUE]
         ELSE [w |-> w, pc |-> pc2, jumped |-> FALSE]
    ELSE [w |-> w, pc |-> pc2, jumped |-> FALSE]
WithDataMutValidated(w, pc0, pc2, spb, data, u) ==
    IF ~(data > 0) /\ u = -1 THEN Raised(w, pc0)
    ELSE IF spb = 2 THEN [w |-> advance(w, data), pc |-> pc2, jumped |-> FALSE]
    ELSE IF spb = 3 THEN [w |-> devance(w, data), pc |-> pc2, jumped |-> FALSE]
    ELSE IF spb = 4 \/ spb = 5
    THEN IF TapeIndex(w) = 0 /\ u = -1 THEN Raised(w, pc0)
         ELSE IF /\ (spb = 4 /\ get(w, u) = 0) \/ (spb = 5 /\ get(w, u) # 0)
                 /\ data >= 8
         THEN [w |-> w, pc |-> data, jumped |-> TRUE]
         ELSE [w |-> w, pc |-> pc2, jumped |-> FALSE]
    ELSE [w |-> w, pc |-> pc2, jumped |-> FALSE]
WithDataMutJumpIfZero(w, pc0, pc2, spb, data, u) ==
    IF ~(data > 0) /\ u = -1 THEN Raised(w, pc0)
    ELSE IF spb = 2 THEN [w |-> advance(w, data), pc |-> pc2, jumped |-> FALSE]
    ELSE IF spb = 3 THEN [w |-> devance(w, data), pc |-> pc2, jumped |-> FALSE]
    ELSE IF spb = 4 \/ spb = 5
    THEN IF TapeIndex(w) = 0 /\ u = -1 THEN Raised(w, pc0)
         ELSE IF get(w, u) = 0
         THEN [w |-> w, pc |-> data, jumped |-> TRUE]
         ELSE [w |-> w, pc |-> pc2, jumped |-> FALSE]
    ELSE [w |-> w, pc |-> pc2, jumped |-> FALSE]
WithData(w, pc0, pc2, spb, data, u) ==
    IF ~(data > 0) /\ u = -1 THEN Raised(w, pc0)
    ELSE IF spb = 2 THEN [w |-> advance(w, data), pc |-> pc2, jumped |-> FALSE]
    ELSE IF spb = 3 THEN [w |-> devance(w, data), pc |-> pc2, jumped |-> FALSE]
    ELSE IF spb = 4 \/ spb = 5
    THEN IF TapeIndex(w) = 0 /\ u = -1 THEN Raised(w, pc0)
         ELSE IF (spb = 4 /\ get(w, u) = 0) \/ (spb = 5 /\ get(w, u) # 0)
         \* pc = data & 0xFFFFFFFF, data being an unsigned 32-bit value
         THEN [w |-> w, pc |-> data, jumped |-> TRUE]
         ELSE [w |-> w, pc |-> pc2, jumped |-> FALSE]
    ELSE [w |-> w, pc |-> pc2, jumped |-> FALSE]

\* The branch spb # -1, on the world w the plain code c1 (if any) left.
Extended(p, w, pc0, spb, u) ==
    LET pc1 == pc0 + 1
    IN  IF w.fault THEN [w |-> w, pc |-> pc0, jumped |-> FALSE]
        ELSE IF spb = 0 \/ spb = 1 THEN Arith(p, w, pc0, spb, u)
        ELSE LET s == Slice(p, pc1, pc1 + 4)
             IN  IF Len(s) < 4 /\ u = -1 THEN Raised(w, pc0)
                 ELSE WithData(w, pc0, pc1 + 4, spb, runpack(Pad(s, u)), u)

\* One iteration of the loop at offset pc0.
IterationMutPrefixLast(p, w, pc0, u) ==
    LET d == Decode(p[pc0 + 1])
    IN  IF d.spb = -1 THEN PackedPair(w, d.c1, d.c2, pc0, u)
        ELSE LET r == Extended(p, w, pc0, d.spb, u)
             IN  IF d.pre THEN [r EXCEPT !.w = control(r.w, d.c1, u)] ELSE r
Iteration(p, w, pc0, u) ==
    LET d == Decode(p[pc0 + 1])
    IN  IF d.spb = -1 THEN PackedPair(w, d.c1, d.c2, pc0, u)
        ELSE Extended(p, IF d.pre THEN control(w, d.c1, u) ELSE w,
                      pc0, d.spb, u)

\* The number of bytes the plain codes of the instruction byte c read.
ReadsNeeded(c) ==
    LET d == Decode(c)
    IN  (IF (d.spb = -1 \/ d.pre) /\ d.c1 = 7 THEN 1 ELSE 0)
        + (IF d.spb = -1 /\ d.c2 = 7 THEN 1 ELSE 0)

(***************************************************************************)
(* The buffers the model runs.  A body is a sequence of instructions drawn *)
(* from Chunks, possibly followed by an extended instruction that the end  *)
(* of the buffer cuts short.  Bodies of MaxInstr instructions run on the   *)
(* MF tape of memsize 1, shorter ones on every tape.                       *)
(***************************************************************************)
(***************************************************************************)
\* Packed pairs: 0x06 (inc, write), 0x60 (write, inc), 0x66 (write, write),
\* 0x12 (dec, advance), 0x31 (devance, dec), 0x70 (read, inc), 0x0E (inc,
\* 14), 0x45 (4, 5).
PairBytes == {6, 96, 102, 18, 49, 112, 14, 69}

\* Operands (big-endian): 0, 2, 8, 14, 256 and 0x010203FF.
OpZero == <<0, 0, 0, 0>>
OpTwo == <<0, 0, 0, 2>>
OpStart == <<0, 0, 0, 8>>
OpFourteen == <<0, 0, 0, 14>>
OpPage == <<0, 0, 1, 0>>
OpWide == <<1, 2, 3, 255>>

\* Extended instructions: the opcode byte, then its operand.
ExtChunks ==
       \* spb 0 and 1: 0x80, 0x9F, and 0x08 (inc, then spb 0)
       {<<128>> \o OpWide, <<128>> \o OpPage, <<159>> \o OpWide,
        <<8>> \o OpPage}
       \* spb 2 and 3: 0xA0, 0xB0, and 0x2B (advance, then spb 3)
  \cup {<<160>> \o OpZero, <<160>> \o OpTwo, <<160>> \o OpPage,
        <<176>> \o OpZero, <<176>> \o OpTwo, <<43>> \o OpTwo}
       \* spb 6 and 7: 0xE0, and 0x6F (write, then spb 7)
  \cup {<<224>> \o OpZero, <<111>> \o OpTwo}
       \* spb 4 and 5: 0xC0, 0xD0, 0x0C (inc, then spb 4), 0x1D (dec, then
       \* spb 5)
  \cup {<<192>> \o OpZero, <<192>> \o OpStart, <<192>> \o OpPage,
        <<208>> \o OpZero, <<208>> \o OpStart, <<208>> \o OpFourteen,
        <<12>> \o OpFourteen, <<29>> \o OpStart}

Chunks == {<<b>> : b \in PairBytes} \cup ExtChunks

\* Extended instructions whose operand the end of the buffer cuts short.
CutChunks ==
    {SubSeq(c, 1, n) : c \in {<<128>> \o OpWide, <<192>> \o OpStart},
                       n \in 1..4}

RECURSIVE BodiesUpTo(_)
BodiesUpTo(n) ==
    IF n = 0 THEN {<<>>}
    ELSE LET prev == BodiesUpTo(n - 1)
         IN  prev \cup {b \o c : b \in prev, c \in Chunks}

ShortBodies ==
    BodiesUpTo(MaxInstr - 1)
    \cup {b \o c : b \in BodiesUpTo(MaxInstr - 2), c \in CutChunks}

Bodies ==
    BodiesUpTo(MaxInstr)
    \cup {b \o c : b \in BodiesUpTo(MaxInstr - 1), c \in CutChunks}

\* The memsize field of the header, big-endian.
MemField(n) == <<n \div 16777216, (n \div 65536) % 256, (n \div 256) % 256,
                 n % 256>>

BadMagics == {<<255, 109, 103, 253>>, <<255, 109, 102, 0>>,
              <<253, 102, 109, 255>>, <<0, 0, 0, 0>>}

GoodHeaders == {m \o MemField(n) : m \in {Magic, BFMagic}, n \in 0..MaxMem}

\* Loops: cell 0 is set to n (0x80, operand n), a jump-if-zero at offset 13
\* targets the end of the buffer, the body follows at offset 18, and a
\* jump-if-nonzero after the body targets offset 18.  The bodies are 0x14
\* (dec, 4), 0x61 (write, dec) and 0x44 (4, 4).
LoopBodies == {<<20>>, <<97>>, <<68>>}

Loop(n, body) ==
    <<128, 0, 0, 0, n>> \o <<192>> \o MemField(8 + 5 + 5 + Len(body) + 5)
    \o body \o <<208>> \o MemField(8 + 5 + 5)

LoopPrograms ==
    {h \o Loop(n, b) : h \in {BFMagic \o MemField(1), Magic \o MemField(0)},
                       n \in 0..MaxCount, b \in LoopBodies}

\* Reads: 0x74 (read, 4), 0x47 (4, read), 0x77 (read, read), and 0x77 0x66
\* (read, read; write, write), on a BF tape of one cell.
ReadBodies == {<<116>>, <<71>>, <<119>>, <<119, 102>>}

ReadPrograms == {BFMagic \o MemField(1) \o b : b \in ReadBodies}

\* Jumps: a jump-if-zero at offset 8, taken on the fresh tape, followed by
\* 80 01 02 03 FF at offset 13.  The targets lie in the header (1, 4), in
\* the middle of the second instruction (14, 17) and at the end of the
\* buffer (18).
JumpTargets == {1, 4, 14, 17, 18}

JumpPrograms ==
    {Magic \o MemField(1) \o <<192>> \o MemField(t) \o <<128>> \o OpWide :
        t \in JumpTargets}

Programs ==
    \* buffers shorter than a header
       {SubSeq(m \o MemField(1), 1, n) :
            m \in {Magic, BFMagic} \cup BadMagics, n \in 0..7}
    \* buffers with a bad magic
  \cup {m \o MemField(n) \o b :
            m \in BadMagics, n \in 0..MaxMem, b \in BodiesUpTo(1)}
    \* a memsize that is not a single byte
  \cup {m \o MemField(256) \o b : m \in {Magic, BFMagic}, b \in {<<>>, <<6>>}}
  \cup {h \o b : h \in GoodHeaders, b \in ShortBodies}
  \cup {Magic \o MemField(1) \o b : b \in Bodies}
  \cup LoopPrograms
  \cup ReadPrograms
  \cup JumpPrograms

\* The number of iterations the model follows a run of buffer p for: enough
\* for a loop to count down from MaxCount.
StepBudget(p) == IF p \in LoopPrograms THEN 2 + 2 * MaxCount ELSE MaxSteps

(***************************************************************************)
(* The state machine.                                                      *)
(***************************************************************************)
Init ==
    /\ program \in Programs
    /\ pc = 8                    \* pc = 8 & 0xFFFFFFFF
    /\ thetape = <<>>            \* tape = None
    /\ position = 0
    /\ output = <<>>
    /\ diag = <<>>
    /\ stdin = <<>>
    /\ stdinOpen = TRUE
    /\ status = "Start"
    /\ rc = -1
    /\ steps = 0
    /\ opc = 0
    /\ jumped = FALSE

\* mainloop from its entry to the first test of the loop condition.
Load ==
    /\ status = "Start"
    /\ LET h == Header(program)
       IN  /\ diag' = h.diag
           /\ thetape' = h.thetape
           /\ status' = IF ~h.ok THEN "LoadError"
                        ELSE IF Continues(program, pc) THEN "Running"
                        ELSE "Halted"
           /\ rc' = IF ~h.ok THEN 1
                    ELSE IF Continues(program, pc) THEN -1 ELSE 0
    /\ UNCHANGED <<program, pc, position, output, stdin, stdinOpen, steps,
                   opc, jumped>>

\* The instruction at pc is waiting in os.read for bytes not yet there.
Waiting ==
    /\ status = "Running"
    /\ steps < StepBudget(program)
    /\ stdinOpen
    /\ Len(stdin) < ReadsNeeded(program[pc + 1])

\* One iteration of the loop, and the test of the loop condition after it.
Step ==
    /\ status = "Running"
    /\ steps < StepBudget(program)
    /\ ~Waiting
    /\ \E u \in Outcomes :
         LET r == Iteration(program,
                            [thetape |-> thetape, position |-> position,
                             output |-> output, stdin |-> stdin,
                             fault |-> FALSE],
                            pc, u)
         IN  /\ thetape' = r.w.thetape
             /\ position' = r.w.position
             /\ output' = r.w.output
             /\ stdin' = r.w.stdin
             /\ pc' = r.pc
             /\ jumped' = r.jumped
             /\ status' = IF r.w.fault THEN "Fault"
                          ELSE IF Continues(program, r.pc) THEN "Running"
                          ELSE "Halted"
             /\ rc' = IF ~r.w.fault /\ ~Continues(program, r.pc) THEN 0 ELSE -1
    /\ steps' = steps + 1
    /\ opc' = pc
    /\ UNCHANGED <<program, diag, stdinOpen>>

\* The environment writes byte b to the interpreter's standard input.
Feed(b) ==
    /\ Waiting
    /\ stdin' = Append(stdin, b)
    /\ UNCHANGED <<program, pc, thetape, position, output, diag, stdinOpen,
                   status, rc, steps, opc, jumped>>

\* The environment closes the interpreter's standard input.
CloseStdin ==
    /\ Waiting
    /\ stdinOpen' = FALSE
    /\ UNCHANGED <<program, pc, thetape, position, output, diag, stdin,
                   status, rc, steps, opc, jumped>>

Next ==
    \/ Load
    \/ Step
    \/ \E b \in InputBytes : Feed(b)
    \/ CloseStdin

Spec == Init /\ [][Next]_vars

\* The run with its scheduling: the single thread of mainloop takes its
\* next step whenever it can, and the environment keeps standard input open
\* and supplies a byte to every read that waits for one.
FairNext ==
    \/ Load
    \/ Step
    \/ \E b \in InputBytes : Feed(b)

\* The buffers whose runs are followed to their end: the shorter bodies on
\* the BF tapes of no cell and of one cell, the loops and the reads.
FairPrograms ==
       {BFMagic \o MemField(n) \o b : n \in 0..1, b \in ShortBodies}
  \cup LoopPrograms
  \cup ReadPrograms

FairInit == Init /\ program \in FairPrograms

FairSpec ==
    /\ FairInit
    /\ [][FairNext]_vars
    /\ WF_vars(Load)
    /\ WF_vars(Step)
    /\ WF_vars(\E b \in InputBytes : Feed(b))

(***************************************************************************)
(* The loader.                                                             *)
(***************************************************************************)
Loaded == status \in {"Running", "Halted"}

\* C1: a buffer shorter than 8 bytes, whatever its bytes, fails to load as
\* too small: the run returns 1, writes only the "file too small" line
\* (never the "magic mismatch" one), and executes no instruction.
C1_FileTooSmall ==
    (status # "Start" /\ Len(program) < 8) =>
        /\ status = "LoadError"
        /\ rc = 1
        /\ diag = <<"Invalid MF binary(file too small)\n">>
        /\ output = <<>>
        /\ steps = 0

\* A loaded buffer of 4 to 7 bytes that starts with an invalid magic.
C1_Witness ==
    /\ status = "LoadError"
    /\ Len(program) \in 4..7
    /\ SubSeq(program, 1, 4) \notin {<<255, 109, 102, 253>>,
                                     <<255, 109, 104, 253>>}

\* C2: a buffer of 8 bytes or more whose first 4 bytes are neither
\* FF 6D 66 FD nor FF 6D 68 FD fails to load with a magic mismatch: the run
\* returns 1, writes only the "magic mismatch" line and executes no
\* instruction; with either magic the load does not fail.
C2_BadMagic ==
    (status # "Start" /\ Len(program) >= 8) =>
        IF SubSeq(program, 1, 4) \notin {<<255, 109, 102, 253>>,
                                         <<255, 109, 104, 253>>}
        THEN /\ status = "LoadError"
             /\ rc = 1
             /\ diag = <<"Invalid MF binary(magic mismatch)\n">>
             /\ output = <<>>
             /\ steps = 0
        ELSE /\ status # "LoadError"
             /\ rc # 1
             /\ diag = <<>>

\* A loaded buffer with a header and an instruction, rejected for its magic.
C2_Witness ==
    /\ status = "LoadError"
    /\ Len(program) > 8
    /\ diag = <<"Invalid MF binary(magic mismatch)\n">>

\* The memsize values the headers of the model carry.
MemSizes == (0..MaxMem) \cup {256}

\* C3: with the MF magic and memsize N the loader builds a tape of 2N+8
\* cells, 1 at each even index from 2 to 2N+6 and 0 elsewhere, cursor 0.
C3_MFTape ==
    \A N \in MemSizes :
        (/\ Loaded
         /\ steps = 0
         /\ SubSeq(program, 1, 8) = <<255, 109, 102, 253>> \o MemField(N)) =>
            /\ Len(thetape) = 2 * N + 8
            /\ \A i \in 0..(2 * N + 7) :
                   thetape[i + 1] = IF i >= 2 /\ i % 2 = 0 THEN 1 ELSE 0
            /\ position = 0

\* The MF tape of memsize 256 (bytes 00 00 01 00), just loaded.
C3_Witness ==
    /\ Loaded
    /\ steps = 0
    /\ SubSeq(program, 1, 8) = <<255, 109, 102, 253, 0, 0, 1, 0>>
    /\ Len(thetape) = 520
    /\ thetape[519] = 1

\* C4: with the BF magic and memsize N the loader builds a tape of N cells,
\* all 0, cursor 0.
C4_BFTape ==
    \A N \in MemSizes :
        (/\ Loaded
         /\ steps = 0
         /\ SubSeq(program, 1, 8) = <<255, 109, 104, 253>> \o MemField(N)) =>
            /\ Len(thetape) = N
            /\ \A i \in 0..(N - 1) : thetape[i + 1] = 0
            /\ position = 0

\* The BF tape of memsize 0, just loaded: no cell at all.
C4_Witness ==
    /\ Loaded
    /\ steps = 0
    /\ SubSeq(program, 1, 8) = <<255, 109, 104, 253, 0, 0, 0, 0>>
    /\ thetape = <<>>

(***************************************************************************)
(* The loop.                                                               *)
(***************************************************************************)
\* C5: a loaded machine starts Running with pc = 8, iterates only while
\* pc < len(program), and is Halted, returning 0, exactly when
\* pc >= len(program); a buffer of 8 bytes halts at once with no step.
C5_RunsWhileInside ==
    /\ [](Loaded =>
            /\ (status = "Halted") <=> (pc >= Len(program))
            /\ (status = "Halted") <=> (rc = 0)
            /\ steps = 0 => pc = 8
            /\ Len(program) = 8 => (status = "Halted" /\ steps = 0))
    /\ [][steps' # steps =>
            (status = "Running" /\ pc < Len(program))]_vars
    /\ [][status = "Halted" => UNCHANGED vars]_vars

\* A header-only buffer, halted with success before any step.
C5_Witness ==
    /\ status = "Halted"
    /\ Len(program) = 8
    /\ steps = 0
    /\ rc = 0

(***************************************************************************)
(* The instruction set as the specification words it, for the claims       *)
(* below: the shape of an instruction byte, and the effect of a plain      *)
(* control code on t = [thetape, position, output, stdin] when the cursor  *)
(* is on the tape.                                                         *)
(***************************************************************************)
\* c1 has its high bit clear, and c2 has it clear or c2 & 7 = 6.
IsPackedByte(c) == c < 128 /\ (c % 16 < 8 \/ c % 16 = 14)

\* c1 has its high bit set, or c2 has it set and c2 & 7 # 6.
IsExtendedByte(c) == c >= 128 \/ (c % 16 >= 8 /\ c % 16 # 14)

\* An extended byte whose c1 is a plain code run before the extended opcode.
HasPlainPrefix(c) == c < 128

\* The extended opcode an extended byte selects.
SpbOf(c) == IF c >= 128 THEN (c \div 16) - 8 ELSE (c % 16) - 8

\* The four operand bytes after the opcode at offset o, as a big-endian value.
OperandAt(o) ==
    ((program[o + 2] * 256 + program[o + 3]) * 256 + program[o + 4]) * 256
    + program[o + 5]

Now == [thetape |-> thetape, position |-> position, output |-> output,
        stdin |-> stdin]

OnTape(t) == t.position >= 0 /\ t.position < Len(t.thetape)

CellOf(t) == t.thetape[t.position + 1]

\* The plain code can run on t: its cell exists and its input byte is there.
CanRun(code, t) ==
    /\ code \in {0, 1, 6, 7} => OnTape(t)
    /\ code = 7 => t.stdin # <<>>

PlainEffect(code, t) ==
    CASE code = 0 -> [t EXCEPT !.thetape[t.position + 1] = (@ + 1) % 256]
      [] code = 1 -> [t EXCEPT !.thetape[t.position + 1] = (@ + 255) % 256]
      [] code = 2 -> [t EXCEPT !.position = @ + 1]
      [] code = 3 -> [t EXCEPT !.position = @ - 1]
      [] code = 6 -> [t EXCEPT !.output = Append(@, CellOf(t))]
      [] code = 7 -> [t EXCEPT !.thetape[t.position + 1] = Head(t.stdin),
                               !.stdin = Tail(@)]
      [] OTHER -> t

\* The byte the coming iteration decodes, and the state its extended opcode
\* acts on: the current one, or what its plain prefix makes of it.
CurByte == program[pc + 1]

PrefixCanRun ==
    HasPlainPrefix(CurByte) => CanRun(CurByte \div 16, Now)

AfterPrefix ==
    IF HasPlainPrefix(CurByte) THEN PlainEffect(CurByte \div 16, Now) ELSE Now

\* An iteration runs to its end: it begins, and no exception ends the run.
Completes == steps' = steps + 1 /\ status' # "Fault"

\* The plain prefix stores no value outside 0..255.
PrefixInBounds ==
    /\ (HasPlainPrefix(CurByte) /\ CurByte \div 16 = 0) => CellOf(Now) < 255
    /\ (HasPlainPrefix(CurByte) /\ CurByte \div 16 = 1) => CellOf(Now) > 0

\* An iteration begins on an extended byte of opcode spb whose operand lies
\* in the buffer and whose plain prefix can run.
Begins(spb) ==
    /\ steps' = steps + 1
    /\ IsExtendedByte(CurByte)
    /\ SpbOf(CurByte) = spb
    /\ pc + 4 < Len(program)
    /\ PrefixCanRun
    /\ PrefixInBounds

\* The tape, cursor and streams after the iteration are those of t.
Leaves(t) ==
    /\ thetape' = t.thetape
    /\ position' = t.position
    /\ output' = t.output
    /\ stdin' = t.stdin

\* C6: a step that takes no jump advances pc by 1 when its byte is a packed
\* pair and by 5 when it is an extended instruction, and by nothing else.
C6_PcAdvance ==
    (steps > 0 /\ Loaded /\ ~jumped) =>
        /\ IsPackedByte(program[opc + 1]) => pc = opc + 1
        /\ IsExtendedByte(program[opc + 1]) => pc = opc + 5
        /\ pc - opc \in {1, 5}

\* The byte 0x0E (c2 = 14: high bit set, c2 & 7 = 6) ran as a packed pair.
C6_Witness ==
    /\ steps > 0
    /\ Loaded
    /\ ~jumped
    /\ program[opc + 1] = 14
    /\ pc = opc + 1

\* C7: a packed pair applies the code of its high nibble, then the code of
\* its low nibble, and advances pc by 1; byte 0x66 appends the current cell
\* to the output twice and changes no cell and not the cursor.
C7_PackedPair ==
    [][(/\ Completes
        /\ IsPackedByte(CurByte)
        /\ CanRun(CurByte \div 16, Now)
        /\ CanRun(CurByte % 16, PlainEffect(CurByte \div 16, Now))) =>
            /\ Leaves(PlainEffect(CurByte % 16,
                                  PlainEffect(CurByte \div 16, Now)))
            /\ pc' = pc + 1
            /\ CurByte = 102 =>
                  /\ output' = output \o <<CellOf(Now), CellOf(Now)>>
                  /\ thetape' = thetape
                  /\ position' = position]_vars

\* Byte 0x66 ran on a nonzero cell and wrote it twice.
C7_Witness ==
    /\ steps > 0
    /\ status # "Fault"
    /\ program[opc + 1] = 102
    /\ pc = opc + 1
    /\ position >= 0 /\ position < Len(thetape)
    /\ thetape[position + 1] # 0
    /\ output = <<thetape[position + 1], thetape[position + 1]>>

\* C8: extended opcode 0 (1) adds to (subtracts from) the current cell the
\* fourth operand byte alone, modulo 256; no other cell and not the cursor
\* change, and pc advances by 5.
C8_ArithLowByte ==
    [][(/\ Completes
        /\ Begins(0) \/ Begins(1)
        /\ OnTape(AfterPrefix)) =>
            /\ Leaves([AfterPrefix EXCEPT
                         !.thetape[AfterPrefix.position + 1] =
                             IF SpbOf(CurByte) = 0
                             THEN (@ + program[pc + 5]) % 256
                             ELSE (@ + 256 - program[pc + 5]) % 256])
            /\ pc' = pc + 5]_vars

\* Opcode 0x80 with operand 01 02 03 FF raised cell 0 from 0 to 255.
C8_Witness ==
    /\ steps = 1
    /\ status # "Fault"
    /\ Len(thetape) > 0
    /\ Len(program) >= opc + 5
    /\ program[opc + 1] = 128
    /\ SubSeq(program, opc + 2, opc + 5) = <<1, 2, 3, 255>>
    /\ position = 0
    /\ thetape[1] = 255
    /\ pc = opc + 5

\* What extended opcodes 2 and 3 do with the operand on the state the plain
\* prefix left.
Moved ==
    /\ status' # "Fault"
    /\ Leaves([AfterPrefix EXCEPT
                 !.position = IF SpbOf(CurByte) = 2 THEN @ + OperandAt(pc)
                              ELSE @ - OperandAt(pc)])
    /\ pc' = pc + 5

\* C9 as claimed: for every operand, zero included, extended opcode 2 moves
\* the cursor forward by the operand and 3 back by it; the step completes
\* without a fault, changes no cell and advances pc by 5.
C9_AnyOperand ==
    [][(Begins(2) \/ Begins(3)) => Moved]_vars

\* C9 amended: the same for every nonzero operand; with operand 0 the step
\* either ends the run (assert data > 0) or moves nothing.
C9_NonzeroOperand ==
    [][(Begins(2) \/ Begins(3)) =>
            IF OperandAt(pc) # 0 THEN Moved
            ELSE \/ status' = "Fault"
                 \/ Leaves(AfterPrefix) /\ pc' = pc + 5]_vars

\* Opcode 0xA0 with operand 00 00 01 00 moved the cursor from 0 to 256.
C9_Witness ==
    /\ steps = 1
    /\ status # "Fault"
    /\ program[opc + 1] = 160
    /\ SubSeq(program, opc + 2, opc + 5) = <<0, 0, 1, 0>>
    /\ position = 256
    /\ pc = opc + 5

\* What extended opcodes 4 and 5 do with the operand on the state the plain
\* prefix left.
Branched ==
    /\ status' # "Fault"
    /\ Leaves(AfterPrefix)
    /\ pc' = IF \/ SpbOf(CurByte) = 4 /\ CellOf(AfterPrefix) = 0
                \/ SpbOf(CurByte) = 5 /\ CellOf(AfterPrefix) # 0
             THEN OperandAt(pc)
             ELSE pc + 5

\* C10 as claimed: extended opcode 4 sets pc to the operand, a big-endian
\* absolute offset, when the current cell is 0, and opcode 5 when it is not
\* 0; otherwise pc is the offset of the opcode plus 5; tape, cursor and
\* output stay as they were.
C10_AnyTarget ==
    [][((Begins(4) \/ Begins(5)) /\ OnTape(AfterPrefix)) => Branched]_vars

\* C10 amended: the same for every nonzero operand; with operand 0 the step
\* either ends the run (assert data > 0) or branches as claimed.
C10_NonzeroTarget ==
    [][((Begins(4) \/ Begins(5)) /\ OnTape(AfterPrefix)) =>
            IF OperandAt(pc) # 0 THEN Branched
            ELSE status' = "Fault" \/ Branched]_vars

\* Opcode 0xD0 with operand 00 00 00 08 found the cell nonzero and jumped
\* back to offset 8.
C10_Witness ==
    /\ steps > 0
    /\ status = "Running"
    /\ jumped
    /\ program[opc + 1] = 208
    /\ SubSeq(program, opc + 2, opc + 5) = <<0, 0, 0, 8>>
    /\ opc > 8
    /\ pc = 8

(***************************************************************************)
(* The loop construct.                                                     *)
(***************************************************************************)
InLoop == program \in LoopPrograms

\* The offsets of the jump-if-zero, of the jump-if-nonzero and of the exit,
\* the count n the cell starts the loop with, and the byte of the body.
LoopA == 8 + 5
LoopC == Len(program) - 5
LoopB == Len(program)
LoopCount == program[LoopA]
LoopBody == program[LoopA + 5 + 1]

\* The number of times the body and the jump after it have run.
BodyRuns == (steps - 2) \div 2

\* C11: in a loop of a jump-if-zero at A targeting the exit B and a
\* jump-if-nonzero at C targeting the body at A+5, the jump at A enters the
\* body exactly when the cell is nonzero and the jump at C repeats it
\* exactly when the cell is nonzero; the exit is reached only with the cell
\* at 0, and a body that decrements the cell once, started with the cell at
\* n, has run exactly n times when the exit is reached.
C11_Loop ==
    /\ [][(InLoop /\ steps' = steps + 1 /\ pc \in {LoopA, LoopC}) =>
              /\ status' # "Fault"
              /\ pc' = IF CellOf(Now) = 0 THEN LoopB ELSE LoopA + 5
              /\ Leaves(Now)]_vars
    /\ []((InLoop /\ status = "Running" /\ pc = LoopA + 5) =>
              CellOf(Now) # 0)
    /\ []((InLoop /\ status = "Halted") =>
              /\ pc = LoopB
              /\ CellOf(Now) = 0
              /\ LoopBody \in {20, 97} =>
                    /\ BodyRuns = LoopCount
                    /\ Len(output) = IF LoopBody = 97 THEN LoopCount ELSE 0
              /\ LoopBody = 68 => LoopCount = 0)

\* The body 0x61 (write, dec) ran twice from n = 2, writing 2 and then 1.
C11_Witness ==
    /\ InLoop
    /\ status = "Halted"
    /\ LoopCount = 2
    /\ LoopBody = 97
    /\ output = <<2, 1>>
    /\ steps = 6

(***************************************************************************)
(* Cell arithmetic.                                                        *)
(***************************************************************************)
\* C12: every cell holds a value in 0..255, and no increment or decrement
\* of a cell that exists ends the run: the standalone extended opcodes 0
\* and 1 leave (v + n) % 256 and (v - n) % 256 in the cell, n being the low
\* operand byte, and a packed pair leaves what its two codes make of the
\* tape with codes 0 and 1 wrapping modulo 256.
C12_WrapsWithoutFault ==
    /\ [](\A i \in DOMAIN thetape : thetape[i] \in 0..255)
    /\ [][(/\ Begins(0) \/ Begins(1)
           /\ ~HasPlainPrefix(CurByte)
           /\ OnTape(Now)) =>
              /\ status' # "Fault"
              /\ Leaves([Now EXCEPT
                           !.thetape[position + 1] =
                               IF SpbOf(CurByte) = 0
                               THEN (@ + program[pc + 5]) % 256
                               ELSE (@ + 256 - program[pc + 5]) % 256])]_vars
    /\ [][(/\ steps' = steps + 1
           /\ IsPackedByte(CurByte)
           /\ CanRun(CurByte \div 16, Now)
           /\ CanRun(CurByte % 16, PlainEffect(CurByte \div 16, Now))) =>
              /\ status' # "Fault"
              /\ Leaves(PlainEffect(CurByte % 16,
                                    PlainEffect(CurByte \div 16, Now)))]_vars

(***************************************************************************)
(* Input.                                                                  *)
(***************************************************************************)
\* The instruction at pc starts with control code 7 and finds no byte.
ReadFindsNothing == status = "Running" /\ CurByte \div 16 = 7 /\ stdin = <<>>

NoStep == UNCHANGED <<pc, steps, thetape, position, output, status, rc>>

\* What a packed pair holding a code 7 does: each code 7 takes the first
\* pending input byte into the current cell, and nothing else changes; a
\* pair without codes 0 and 1 cannot end the run.
ReadsInOrder ==
    (/\ steps' = steps + 1
     /\ IsPackedByte(CurByte)
     /\ 7 \in {CurByte \div 16, CurByte % 16}
     /\ CanRun(CurByte \div 16, Now)
     /\ CanRun(CurByte % 16, PlainEffect(CurByte \div 16, Now))) =>
        /\ {CurByte \div 16, CurByte % 16} \cap {0, 1} = {} =>
              status' # "Fault"
        /\ status' # "Fault" =>
              /\ Leaves(PlainEffect(CurByte % 16,
                                    PlainEffect(CurByte \div 16, Now)))
              /\ pc' = pc + 1
              /\ CurByte \in {116, 71} =>
                    /\ thetape' = [thetape EXCEPT ![position + 1] = stdin[1]]
                    /\ stdin' = Tail(stdin)
                    /\ position' = position /\ output' = output
              /\ CurByte = 119 =>
                    /\ thetape' = [thetape EXCEPT ![position + 1] = stdin[2]]
                    /\ stdin' = Tail(Tail(stdin))
                    /\ position' = position /\ output' = output

\* C13 as claimed: control code 7 takes exactly one input byte, the first
\* pending, into the current cell and changes nothing else; whenever no
\* input byte is available the machine takes no step.
C13_AlwaysBlocks ==
    /\ [][ReadsInOrder]_vars
    /\ [][ReadFindsNothing => NoStep]_vars

\* C13 amended: the same, the machine taking no step while no byte is
\* pending and the input stream is still open.
C13_BlocksWhileOpen ==
    /\ [][ReadsInOrder]_vars
    /\ [][(ReadFindsNothing /\ stdinOpen) => NoStep]_vars

\* 0x77 0x66 waited for two bytes, read them, the second being 65, and
\* wrote the cell twice.
C13_Witness ==
    /\ program \in ReadPrograms
    /\ Len(program) = 10
    /\ status = "Halted"
    /\ stdinOpen
    /\ stdin = <<>>
    /\ thetape = <<65>>
    /\ output = <<65, 65>>

(***************************************************************************)
(* A plain code followed by an extended opcode in one byte.                *)
(***************************************************************************)
\* What extended opcode spb, with its operand at offset o, makes of t.
ExtendedEffect(spb, t, o) ==
    CASE spb = 0 -> [t EXCEPT !.thetape[t.position + 1] =
                                  (@ + program[o + 5]) % 256]
      [] spb = 1 -> [t EXCEPT !.thetape[t.position + 1] =
                                  (@ + 256 - program[o + 5]) % 256]
      [] spb = 2 -> [t EXCEPT !.position = @ + OperandAt(o)]
      [] spb = 3 -> [t EXCEPT !.position = @ - OperandAt(o)]
      [] OTHER -> t

\* Whether conditional jump spb is taken on t.
Taken(spb, t) ==
    \/ spb = 4 /\ CellOf(t) = 0
    \/ spb = 5 /\ CellOf(t) # 0

\* C15: a byte whose c1 has its high bit clear and whose c2 has it set with
\* c2 & 7 # 6 applies the plain code c1 once, and then the extended opcode
\* c2 & 7 to the tape c1 left: the arithmetic acts on the cell c1 left, the
\* cursor moves from where c1 left it, a conditional jump tests the cell as
\* c1 left it; the instruction takes 5 bytes unless it jumps.
C15_PrefixFirst ==
    [][(/\ Completes
        /\ HasPlainPrefix(CurByte)
        /\ Begins(SpbOf(CurByte))
        /\ SpbOf(CurByte) \in {0, 1, 4, 5} => OnTape(AfterPrefix)) =>
            /\ Leaves(ExtendedEffect(SpbOf(CurByte), AfterPrefix, pc))
            /\ pc' = IF Taken(SpbOf(CurByte), AfterPrefix)
                     THEN OperandAt(pc)
                     ELSE pc + 5]_vars

\* Byte 0x0C (inc, then jump-if-zero) ran on a cell holding 0: the cell is
\* 1 and the jump, testing it after the increment, fell through.
C15_Witness ==
    /\ steps = 1
    /\ status # "Fault"
    /\ program[opc + 1] = 12
    /\ position = 0
    /\ Len(thetape) > 0
    /\ thetape[1] = 1
    /\ ~jumped
    /\ pc = opc + 5

(***************************************************************************)
(* The nibbles of a packed pair.                                           *)
(***************************************************************************)
\* An iteration takes the packed-pair branch: it runs to its end and moves
\* pc by the one byte of the pair, not by a jump.
PairBranch ==
    /\ Completes
    /\ ~jumped'
    /\ pc' = pc + 1

\* C16 as claimed: in the packed-pair branch both nibbles are in 0..7, so
\* no value outside 0..7 reaches Tape.control.
C16_NibblesBelowEight ==
    [][PairBranch =>
          (CurByte \div 16 \in 0..7 /\ CurByte % 16 \in 0..7)]_vars

\* C16 amended: in the packed-pair branch c1 is in 0..7 and c2 is in 0..7 or
\* is 14; both are applied in order with the effects of codes 0, 1, 2, 3, 6
\* and 7, the codes 4, 5 and 14 having no effect.
C16_NibblesOrFourteen ==
    [][PairBranch =>
          /\ CurByte \div 16 \in 0..7
          /\ CurByte % 16 \in (0..7) \cup {14}
          /\ (/\ CanRun(CurByte \div 16, Now)
              /\ CanRun(CurByte % 16, PlainEffect(CurByte \div 16, Now))) =>
                 Leaves(PlainEffect(CurByte % 16,
                                    PlainEffect(CurByte \div 16, Now)))]_vars

\* Byte 0x0E ran as a pair: code 0 raised the cell to 1, and 14 did nothing.
C16_Witness ==
    /\ steps = 1
    /\ status # "Fault"
    /\ program[opc + 1] = 14
    /\ pc = opc + 1
    /\ position = 0
    /\ Len(thetape) = 10
    /\ thetape[1] = 1
    /\ output = <<>>

C18_OperandInBuffer ==
    (status = "Running" /\ IsExtendedByte(CurByte)) => pc + 4 < Len(program)

(***************************************************************************)
(* The frame of an iteration.                                              *)
(***************************************************************************)
\* The plain codes instruction byte c applies, in order, and the extended
\* opcode it selects (-1 for a packed pair).
PlainOps(c) ==
    IF IsPackedByte(c) THEN <<c \div 16, c % 16>>
    ELSE IF HasPlainPrefix(c) THEN <<c \div 16>>
    ELSE <<>>

ExtOp(c) == IF IsExtendedByte(c) THEN SpbOf(c) ELSE -1

\* The place in thetape of the cell under cursor p, a negative p counting
\* from the end.
CellAt(p) == IF p >= 0 THEN p + 1 ELSE p + Len(thetape) + 1

\* The cursor after the plain code op ran with the cursor at p.
CursorAfter(op, p) == IF op = 2 THEN p + 1 ELSE IF op = 3 THEN p - 1 ELSE p

\* The cursor when the last operation of byte c runs: after its first plain
\* code, if it has one before that.
LastCursor(c) ==
    IF PlainOps(c) = <<>> THEN position
    ELSE CursorAfter(PlainOps(c)[1], position)

\* The cells the operations of byte c may change.
MayChange(c) ==
       (IF PlainOps(c) # <<>> /\ PlainOps(c)[1] \in {0, 1, 7}
        THEN {CellAt(position)} ELSE {})
  \cup (IF \/ Len(PlainOps(c)) = 2 /\ PlainOps(c)[2] \in {0, 1, 7}
           \/ ExtOp(c) \in {0, 1}
        THEN {CellAt(LastCursor(c))} ELSE {})

MovesCursor(c) ==
    \/ \E i \in DOMAIN PlainOps(c) : PlainOps(c)[i] \in {2, 3}
    \/ ExtOp(c) \in {2, 3}

Writes(c) == Cardinality({i \in DOMAIN PlainOps(c) : PlainOps(c)[i] = 6})

\* C19: an iteration never changes the length of the tape; it changes no
\* cell but the one under the cursor when a code 0, 1, 7 or an extended
\* opcode 0, 1 of the instruction runs; it leaves the cursor alone unless
\* the instruction holds a code 2, 3 or an extended opcode 2, 3; and the
\* output only grows, by one byte for each code 6 of the instruction.
C19_Frame ==
    /\ [][Len(thetape') = Len(thetape) \/ status = "Start"]_vars
    /\ [][steps' = steps + 1 =>
              /\ \A i \in DOMAIN thetape :
                    thetape'[i] # thetape[i] => i \in MayChange(CurByte)
              /\ ~MovesCursor(CurByte) => position' = position
              /\ SubSeq(output', 1, Len(output)) = output
              /\ Len(output') <= Len(output) + Writes(CurByte)
              /\ status' # "Fault" =>
                    Len(output') = Len(output) + Writes(CurByte)]_vars
    /\ [][steps' = steps => output' = output]_vars

\* Byte 0x06 (inc, write) ran on the fresh MF tape: cell 0 went from 0 to 1,
\* no other cell changed, the cursor stayed, and one byte was written.
C19_Witness ==
    /\ steps = 1
    /\ program[opc + 1] = 6
    /\ Len(program) = 9
    /\ status = "Halted"
    /\ thetape = <<1, 0, 1, 0, 1, 0, 1, 0, 1, 0>>
    /\ position = 0
    /\ output = <<1>>

(***************************************************************************)
(* Termination.                                                            *)
(***************************************************************************)
\* An iteration that runs to its end without taking a jump moves pc forward.
MovesForward == [][(Completes /\ ~jumped') => pc' > pc]_vars

\* The loop with the body 0x44 and a nonzero count keeps running, every
\* iteration finding the configuration the first one left.
SpinsForever ==
    [](( /\ InLoop
         /\ LoopBody = 68
         /\ LoopCount # 0
         /\ steps >= 1) =>
            /\ status = "Running"
            /\ pc \in {LoopA, LoopA + 5, LoopC}
            /\ thetape[1] = LoopCount
            /\ position = 0
            /\ output = <<>>)

\* C20 as claimed: pc strictly increases on every step that takes no jump,
\* so a run that never takes a jump and finds a byte for each read
\* eventually reaches Halted (a buffer that fails to load aside), while a
\* loop whose jump back is always taken never stops.
C20_AlwaysHalts ==
    /\ MovesForward
    /\ SpinsForever
    /\ <>(jumped \/ status \in {"Halted", "LoadError"})

\* C20 amended: the same, a run that never takes a jump eventually reaching
\* Halted or being ended by an exception.
C20_HaltsOrFaults ==
    /\ MovesForward
    /\ SpinsForever
    /\ <>(jumped \/ status \in {"Halted", "Fault", "LoadError"})

\* 0x77 0x66 (read, read; write, write), which holds no jump, waited for
\* its two bytes, got 65 and then 0, and halted after two iterations.
C20_Witness ==
    /\ status = "Halted"
    /\ steps = 2
    /\ ~jumped
    /\ SubSeq(program, 9, Len(program)) = <<119, 102>>
    /\ pc = Len(program)
    /\ stdin = <<>>
    /\ output = <<0, 0>>

=============================================================================
